---------------------------- MODULE Spec2Model ----------------------------
(***************************************************************************)
(* The repository store (hooks/useGitHubRepos), its pagination fetcher and *)
(* record normaliser, and the tag aggregator and filter engine of App.     *)
(*                                                                         *)
(* JavaScript strings are TLA+ strings (TLC evaluates Len, SubSeq and \o   *)
(* on them).  An optional value (null / undefined / absent header) is a    *)
(* sequence of length at most one: None is absent, Some(v) is present.     *)
(***************************************************************************)
EXTENDS Integers, Sequences, FiniteSets, TLC

\* ------------------------------------------------------------------ bounds
\* The largest page number a cycle is served a full page for is MaxPages - 1:
\* the server answers page MaxPages with a short page or a failure.
MaxPages == 3
\* How many times the effect of useGitHubRepos runs (fetch cycles started).
MaxCycles == 2

\* ------------------------------------------------------- optional values
None == <<>>
Some(v) == <<v>>
IsSome(o) == Len(o) > 0

\* ----------------------------------------------------------------- strings
Char(s, i) == SubSeq(s, i, i)

UpperCase == "ABCDEFGHIJKLMNOPQRSTUVWXYZ"
LowerCase == "abcdefghijklmnopqrstuvwxyz"

\* The lower-case letter of each upper-case letter.
LowerOf ==
    [c \in {Char(UpperCase, k) : k \in 1..Len(UpperCase)} |->
        Char(LowerCase, CHOOSE k \in 1..Len(UpperCase) : Char(UpperCase, k) = c)]

\* String.prototype.toLowerCase on one UTF-16 unit (ASCII letters).
LowerChar(c) == IF c \in DOMAIN LowerOf THEN LowerOf[c] ELSE c

RECURSIVE ToLowerCase(_)
ToLowerCase(s) ==
    IF Len(s) = 0 THEN ""
    ELSE LowerChar(Char(s, 1)) \o ToLowerCase(SubSeq(s, 2, Len(s)))

IsSpace(c) == c = " "

RECURSIVE TrimStart(_)
TrimStart(s) ==
    IF Len(s) > 0 /\ IsSpace(Char(s, 1)) THEN TrimStart(SubSeq(s, 2, Len(s))) ELSE s

RECURSIVE TrimEnd(_)
TrimEnd(s) ==
    IF Len(s) > 0 /\ IsSpace(Char(s, Len(s))) THEN TrimEnd(SubSeq(s, 1, Len(s) - 1)) ELSE s

\* String.prototype.trim
Trim(s) == TrimEnd(TrimStart(s))

\* String.prototype.includes: q occurs in s as a contiguous substring.
StrIncludes(s, q) ==
    \E i \in 1..(Len(s) - Len(q) + 1) : SubSeq(s, i, i + Len(q) - 1) = q

\* Collation order of the characters a lower-cased topic is made of.
Collation == " _-0123456789abcdefghijklmnopqrstuvwxyz"

RankOf ==
    [c \in {Char(Collation, k) : k \in 1..Len(Collation)} |->
        CHOOSE k \in 1..Len(Collation) : Char(Collation, k) = c]

Rank(c) == IF c \in DOMAIN RankOf THEN RankOf[c] ELSE Len(Collation) + 1

\* String.prototype.localeCompare: negative, zero or positive.
RECURSIVE LocaleCompare(_, _)
LocaleCompare(a, b) ==
    IF Len(a) = 0 /\ Len(b) = 0 THEN 0
    ELSE IF Len(a) = 0 THEN -1
    ELSE IF Len(b) = 0 THEN 1
    ELSE IF Rank(Char(a, 1)) # Rank(Char(b, 1))
         THEN Rank(Char(a, 1)) - Rank(Char(b, 1))
    ELSE LocaleCompare(SubSeq(a, 2, Len(a)), SubSeq(b, 2, Len(b)))

\* ------------------------------------------------------------------- dates
Digits == "0123456789"
DigitValue ==
    [c \in {Char(Digits, k) : k \in 1..10} |->
        (CHOOSE k \in 1..10 : Char(Digits, k) = c) - 1]
Digit(c) == DigitValue[c]

RECURSIVE ParseInt(_)
ParseInt(s) ==
    IF Len(s) = 0 THEN 0
    ELSE 10 * ParseInt(SubSeq(s, 1, Len(s) - 1)) + Digit(Char(s, Len(s)))

\* Days since 1970-01-01 of a proleptic Gregorian date.
DaysFromCivil(y, m, d) ==
    LET yy  == IF m <= 2 THEN y - 1 ELSE y
        era == yy \div 400
        yoe == yy - era * 400
        mp  == (m + 9) % 12
        doy == (153 * mp + 2) \div 5 + d - 1
        doe == yoe * 365 + yoe \div 4 - yoe \div 100 + doy
    IN  era * 146097 + doe - 719468

\* new Date(iso).getTime() for the API's "YYYY-MM-DDTHH:MM:SSZ" timestamps,
\* in seconds: getTime() is 1000 times this value, and the factor leaves the
\* sign of a difference of two of them unchanged.
DateGetTime(iso) ==
    LET y  == ParseInt(SubSeq(iso, 1, 4))
        mo == ParseInt(SubSeq(iso, 6, 7))
        d  == ParseInt(SubSeq(iso, 9, 10))
        h  == ParseInt(SubSeq(iso, 12, 13))
        mi == ParseInt(SubSeq(iso, 15, 16))
        s  == ParseInt(SubSeq(iso, 18, 19))
    IN  ((DaysFromCivil(y, mo, d) * 24 + h) * 60 + mi) * 60 + s


\* ----------------------------------------------------------- raw records
\* A GitHubRepo as the listing API returns it.  description and homepage are
\* string | null, topics is optional.  stargazers_count, forks_count and
\* language are carried through untouched by the store and read by no code
\* modelled here; they are left out of the record.
Repo(id, name, description, homepage, topics, updated_at, archived, fork) ==
    [ id          |-> id,
      name        |-> name,
      html_url    |-> "https://github.com/u/" \o name,
      description |-> description,
      homepage    |-> homepage,
      topics      |-> topics,
      updated_at  |-> updated_at,
      archived    |-> archived,
      fork        |-> fork ]

R1 == Repo(1, "Vision-Kit", Some("Computer vision tools"), Some(" https://kit.dev "),
           Some(<<"CV", "cv", "ML">>), "2024-03-01T10:00:00Z", FALSE, FALSE)
R2 == Repo(2, "mlops", None, None,
           Some(<<"ml">>), "2024-05-20T08:30:00Z", FALSE, FALSE)
R3 == Repo(3, "forked-lib", Some("A fork"), Some(""),
           None, "2023-12-31T23:59:59Z", FALSE, TRUE)
R4 == Repo(4, "old-notes", Some("Archived ML notes"), Some("   "),
           Some(<<"Notes", "ml">>), "2020-12-03T00:00:00Z", TRUE, FALSE)
R5 == Repo(5, "dead-fork", None, None,
           Some(<<"cv">>), "2024-01-15T12:00:00Z", TRUE, TRUE)
R6 == Repo(6, "dotfiles", Some("shell setup"), None,
           Some(<<>>), "2024-03-01T10:00:00Z", FALSE, FALSE)

Pad2(n) == IF n < 10 THEN "0" \o ToString(n) ELSE ToString(n)

\* The n-th repository of a long listing, most recently updated first.
\* topics is string[] | undefined: a topic is any string, the empty one
\* included.
Gen(n) ==
    LET k == 500 - n
    IN  Repo(100 + n,
             "repo-" \o ToString(n),
             IF n % 2 = 0 THEN None ELSE Some("Demo"),
             None,
             IF n % 3 = 0 THEN Some(<<"ml">>)
             ELSE IF n % 12 = 4 THEN Some(<<"">>)
             ELSE IF n % 3 = 1 THEN None
             ELSE Some(<<"CV", "cv">>),
             ToString(2020 + (k \div 336)) \o "-" \o Pad2(1 + ((k % 336) \div 28))
                 \o "-" \o Pad2(1 + (k % 28)) \o "T00:00:00Z",
             n % 25 = 0,
             n % 10 = 0)

\* const PER_PAGE = 100
PER_PAGE == 100

\* The bodies the listing API may answer a page request with.
ShortBodies == {"empty", "mixed", "tail37"}

PageBody(b, page) ==
    CASE b = "full"   -> [i \in 1..PER_PAGE |-> Gen((page - 1) * PER_PAGE + i)]
      [] b = "tail37" -> [i \in 1..37 |-> Gen((page - 1) * PER_PAGE + i)]
      [] b = "mixed"  -> <<R3, R6, R4, R1, R5, R2>>
      [] b = "empty"  -> <<>>

\* The same, tabulated once for the pages a cycle can ask for.
PageTable ==
    [page \in 1..MaxPages |-> [b \in ShortBodies \cup {"full"} |-> PageBody(b, page)]]

Body(b, page) == PageTable[page][b]

\* The ways a page request may fail: a non-success HTTP response with its
\* status and the two rate-limit headers (each present or absent), or the
\* transport rejecting the request.
HttpFailures ==
    { [kind |-> "http", status |-> 403, remaining |-> r, reset |-> t] :
        r \in {None, Some("57")}, t \in {None, Some("1700000000")} }

NetworkFailure == [kind |-> "network", status |-> 0, remaining |-> None, reset |-> None]

Failures == HttpFailures \cup {NetworkFailure}

\* -------------------------------------------------------------- normalise
\* Faulty variant: the topics are not passed through a Set.
ArrayFromList(xs) == xs

\* Array.from(new Set(xs)): the first occurrence of each value, in order.
RECURSIVE ArrayFromSet(_)
ArrayFromSet(xs) ==
    IF xs = <<>> THEN <<>>
    ELSE LET front == ArrayFromSet(SubSeq(xs, 1, Len(xs) - 1))
             x     == xs[Len(xs)]
         IN  IF \E i \in 1..Len(front) : front[i] = x THEN front ELSE Append(front, x)

normalise(repo) ==
    LET repoTopics       == IF IsSome(repo.topics) THEN repo.topics[1] ELSE <<>>
        normalisedTopics == [i \in 1..Len(repoTopics) |-> ToLowerCase(repoTopics[i])]
        homepage         == IF IsSome(repo.homepage) THEN Trim(repo.homepage[1]) ELSE ""
        docsUrl          == IF Len(homepage) > 0 THEN homepage
                            ELSE repo.html_url \o "#readme"
    IN  [ id          |-> repo.id,
          name        |-> repo.name,
          html_url    |-> repo.html_url,
          description |-> repo.description,
          homepage    |-> repo.homepage,
          topics      |-> repo.topics,
          updated_at  |-> repo.updated_at,
          archived    |-> repo.archived,
          fork        |-> repo.fork,
          allTags     |-> ArrayFromSet(normalisedTopics),
          docsUrl     |-> docsUrl ]

\* --------------------------------------------------------------- fetchPage
\* `${v}` of a header value: null prints as "null".
TemplateOf(o) == IF IsSome(o) THEN o[1] ELSE "null"

\* rateLimitRemaining ? `...` : undefined  (the empty string is falsy)
RateInfo(remaining, reset) ==
    IF IsSome(remaining) /\ Len(remaining[1]) > 0
    THEN Some("Rate limit remaining: " \o remaining[1] \o ". Resets at: " \o TemplateOf(reset))
    ELSE None

\* The message of the Error a failed page request is rejected with.
FetchPageError(f) ==
    IF f.kind = "http"
    THEN LET rateInfo == RateInfo(f.remaining, f.reset)
         IN  Trim("Failed to fetch repositories (status " \o ToString(f.status) \o "). "
                  \o (IF IsSome(rateInfo) THEN rateInfo[1] ELSE ""))
    ELSE "Failed to fetch"

\* ------------------------------------------------- loadRepositories, pure
\* Faulty variant: the archived test is missing.
KeepRepoForksOnly(repo, includeForks, includeArchived) ==
    IF ~includeForks /\ repo.fork THEN FALSE ELSE TRUE

\* aggregated.filter(...)
KeepRepo(repo, includeForks, includeArchived) ==
    IF ~includeForks /\ repo.fork THEN FALSE
    ELSE IF ~includeArchived /\ repo.archived THEN FALSE
    ELSE TRUE

FilterRepos(rs, includeForks, includeArchived) ==
    SelectSeq(rs, LAMBDA repo : KeepRepo(repo, includeForks, includeArchived))

\* (a, b) => new Date(b.updated_at).getTime() - new Date(a.updated_at).getTime()
CompareUpdated(a, b) == DateGetTime(b.updated_at) - DateGetTime(a.updated_at)

\* Faulty variant: the comparator's operands are swapped (oldest first).
SortByUpdatedAscending(rs) == SortSeq(rs, LAMBDA a, b : CompareUpdated(b, a) < 0)

\* Array.prototype.sort with that comparator.  The sort is stable: a is moved
\* in front of b only when the comparator puts it strictly before b.
SortByUpdated(rs) == SortSeq(rs, LAMBDA a, b : CompareUpdated(a, b) < 0)

MapNormalise(rs) == [i \in 1..Len(rs) |-> normalise(rs[i])]

\* What setRepositories is called with for the aggregated raw records.
Normalised(aggregated, includeForks, includeArchived) ==
    SortByUpdated(MapNormalise(FilterRepos(aggregated, includeForks, includeArchived)))

\* --------------------------------------------------------------- App, pure
\* counts.set(normalised, (counts.get(normalised) ?? 0) + 1) on a Map kept as
\* its entries in insertion order.
MapIncrement(counts, label) ==
    IF \E k \in 1..Len(counts) : counts[k].label = label
    THEN [k \in 1..Len(counts) |->
            IF counts[k].label = label
            THEN [label |-> label, count |-> counts[k].count + 1]
            ELSE counts[k]]
    ELSE Append(counts, [label |-> label, count |-> 1])

\* repo.allTags.forEach((tag) => ...) starting from the Map counts.
RECURSIVE CountTags(_, _)
CountTags(counts, allTags) ==
    IF allTags = <<>> THEN counts
    ELSE CountTags(MapIncrement(counts, ToLowerCase(allTags[1])),
                   SubSeq(allTags, 2, Len(allTags)))

\* Faulty variant: a label already in the Map is not counted again.
RECURSIVE MapAddAllOnce(_, _)
MapAddAllOnce(m1, m2) ==
    IF m2 = <<>> THEN m1
    ELSE LET e == m2[1]
             bumped ==
                 IF \E k \in 1..Len(m1) : m1[k].label = e.label
                 THEN m1
                 ELSE Append(m1, e)
         IN  MapAddAllOnce(bumped, SubSeq(m2, 2, Len(m2)))

\* The Map m1 after the increments that built m2 from the empty Map.
RECURSIVE MapAddAll(_, _)
MapAddAll(m1, m2) ==
    IF m2 = <<>> THEN m1
    ELSE LET e == m2[1]
             bumped ==
                 IF \E k \in 1..Len(m1) : m1[k].label = e.label
                 THEN [k \in 1..Len(m1) |->
                        IF m1[k].label = e.label
                        THEN [label |-> e.label, count |-> m1[k].count + e.count]
                        ELSE m1[k]]
                 ELSE Append(m1, e)
         IN  MapAddAll(bumped, SubSeq(m2, 2, Len(m2)))

\* repositories.forEach(...) over repositories[lo..hi], from the empty Map.
\* The range is visited in halves so that the evaluation depth stays
\* logarithmic in the number of repositories.
RECURSIVE TagCounts(_, _, _)
TagCounts(repos, lo, hi) ==
    IF lo > hi THEN <<>>
    ELSE IF lo = hi THEN CountTags(<<>>, repos[lo].allTags)
    ELSE LET mid == (lo + hi) \div 2
         IN  MapAddAll(TagCounts(repos, lo, mid), TagCounts(repos, mid + 1, hi))

\* The useMemo body of tags: the Map's entries sorted with localeCompare.
ComputeTags(repos) ==
    SortSeq(TagCounts(repos, 1, Len(repos)),
            LAMBDA a, b : LocaleCompare(a.label, b.label) < 0)

\* The callback of repositories.filter in filteredRepositories.  activeTag is
\* string | null; the empty string is falsy.
MatchesFilters(repo, tag, term) ==
    LET matchesTag ==
            IF IsSome(tag) /\ Len(tag[1]) > 0
            THEN \E k \in 1..Len(repo.allTags) : repo.allTags[k] = tag[1]
            ELSE TRUE
        query == ToLowerCase(term)
    IN  IF ~matchesTag THEN FALSE
        ELSE IF Len(Trim(term)) = 0 THEN TRUE
        ELSE \/ StrIncludes(ToLowerCase(repo.name), query)
             \/ StrIncludes(ToLowerCase(IF IsSome(repo.description)
                                        THEN repo.description[1] ELSE ""), query)
             \/ \E k \in 1..Len(repo.allTags) : StrIncludes(repo.allTags[k], query)

ComputeFiltered(repos, tag, term) ==
    SelectSeq(repos, LAMBDA repo : MatchesFilters(repo, tag, term))

\* ------------------------------------------------------------------- state
VARIABLES
    mounted,               \* "no": not rendered yet, "yes", "gone": torn down
    options,               \* the options the consumer passes to useGitHubRepos
    repositories,          \* useState<RepositoryWithTags[]>([])
    isLoading,             \* useState(true)
    error,                 \* useState<string | null>(null)
    cycles,                \* one frame per run of the effect: the closure of
                           \* loadRepositories and its cancelled flag
    activeTag,             \* App: useState<string | null>(null)
    searchTerm,            \* App: useState("")
    tags,                  \* App: the memoised TagMeta[]
    filteredRepositories,  \* App: the memoised visible subset
    lastApplied            \* history: the last call of loadRepositories that
                           \* returned with cancelled false, with its locals
                           \* at that moment

store == <<repositories, isLoading, error>>
vars == <<mounted, options, repositories, isLoading, error, cycles,
          activeTag, searchTerm, tags, filteredRepositories, lastApplied>>

\* const GITHUB_USERNAME = "GeorgePearse"
GITHUB_USERNAME == "GeorgePearse"

\* useGitHubRepos({ username: GITHUB_USERNAME })
AppOptions ==
    [username |-> GITHUB_USERNAME, includeForks |-> None, includeArchived |-> None]

\* The UseGitHubReposOptions a consumer may pass: each flag absent, true or false.
OptionSet ==
    { AppOptions,
      [username |-> GITHUB_USERNAME, includeForks |-> Some(FALSE), includeArchived |-> None],
      [username |-> GITHUB_USERNAME, includeForks |-> Some(TRUE),  includeArchived |-> None],
      [username |-> GITHUB_USERNAME, includeForks |-> Some(FALSE), includeArchived |-> Some(TRUE)],
      [username |-> "octocat",       includeForks |-> Some(TRUE),  includeArchived |-> Some(TRUE)] }

\* { includeArchived = false, includeForks = false } = options
DefaultFalse(o) == IF IsSome(o) THEN o[1] ELSE FALSE

\* The dependency array [username, includeArchived, includeForks].
Deps(o) == <<o.username, DefaultFalse(o.includeArchived), DefaultFalse(o.includeForks)>>

\* The closure a run of the effect creates, at its first await: cancelled is
\* false, aggregated empty, page 1 requested.  requested, responses and
\* before are history: the page numbers asked for, the bodies received, and
\* repositories when the cycle started.
StartFrame(o) ==
    [ pc              |-> "fetching",
      cancelled       |-> FALSE,
      username        |-> o.username,
      includeForks    |-> DefaultFalse(o.includeForks),
      includeArchived |-> DefaultFalse(o.includeArchived),
      page            |-> 1,
      aggregated      |-> <<>>,
      requested       |-> <<1>>,
      responses       |-> <<>>,
      before          |-> repositories ]

\* A frame whose call has returned: of the closure only the cancelled flag
\* can still be written; nothing reads the rest any more.  pc tells whether
\* the call found cancelled set when it returned ("dropped") or not
\* ("returned").
ReturnedFrame(f) ==
    [ pc              |-> IF f.cancelled THEN "dropped" ELSE "returned",
      cancelled       |-> f.cancelled,
      username        |-> "",
      includeForks    |-> FALSE,
      includeArchived |-> FALSE,
      page            |-> 0,
      aggregated      |-> <<>>,
      requested       |-> <<>>,
      responses       |-> <<>>,
      before          |-> <<>> ]

\* return () => { cancelled = true }, of the latest run of the effect.
Cleanup(fs) ==
    IF fs = <<>> THEN fs ELSE [fs EXCEPT ![Len(fs)].cancelled = TRUE]

\* Faulty variant: the previous error is not cleared.
BeginLoadKeepingError == isLoading' = TRUE /\ error' = error

\* setIsLoading(true); setError(null)
BeginLoad == isLoading' = TRUE /\ error' = None

\* Faulty variant: the cancelled flag is never consulted.
DiscardedNever(f) == FALSE

\* if (cancelled) return / if (!cancelled) {...}: the frame's results are dropped.
Discarded(f) == f.cancelled

\* Faulty variant: a full page ends the cycle too.
IsLastPageOrFull(pageData) == Len(pageData) <= PER_PAGE

\* if (pageData.length < PER_PAGE) break
IsLastPage(pageData) == Len(pageData) < PER_PAGE

\* Faulty variant: the catch block also empties the collection.
CatchBlockClearing(message) == error' = Some(message) /\ repositories' = <<>>

\* catch (err) { if (!cancelled) { setError(message) } }, cancelled being false.
CatchBlock(message) == error' = Some(message) /\ UNCHANGED repositories

\* Faulty variant: the finally block leaves isLoading as it is.
FinallyBlockSkipped == UNCHANGED isLoading

\* finally { if (!cancelled) { setIsLoading(false) } }, cancelled being false.
FinallyBlock == isLoading' = FALSE

\* The two useMemo hooks of App, evaluated by the render that follows a state
\* change: each recomputes when one of its dependencies changed.
Render ==
    /\ tags' = IF repositories' # repositories
               THEN ComputeTags(repositories') ELSE tags
    /\ filteredRepositories' =
          IF \/ repositories' # repositories
             \/ activeTag' # activeTag
             \/ searchTerm' # searchTerm
          THEN ComputeFiltered(repositories', activeTag', searchTerm')
          ELSE filteredRepositories

Snapshot(c, f, outcome, failure) ==
    Some([ cycle |-> c, outcome |-> outcome, failure |-> failure,
           aggregated |-> f.aggregated, requested |-> f.requested,
           responses |-> f.responses,
           includeForks |-> f.includeForks,
           includeArchived |-> f.includeArchived ])

Init ==
    /\ mounted = "no"
    /\ options \in OptionSet
    /\ repositories = <<>>
    /\ isLoading = TRUE
    /\ error = None
    /\ cycles = <<>>
    /\ activeTag = None
    /\ searchTerm = ""
    /\ tags = <<>>
    /\ filteredRepositories = <<>>
    /\ lastApplied = None

\* ----------------------------------------------------------------- actions
\* The first render and the first run of the effect: loadRepositories runs
\* up to its first await.
Mount ==
    /\ mounted = "no"
    /\ mounted' = "yes"
    /\ cycles' = <<StartFrame(options)>>
    /\ BeginLoad
    /\ UNCHANGED <<options, repositories, activeTag, searchTerm, lastApplied>>
    /\ Render

\* The consumer renders the hook with other options.  When a dependency
\* changed the cleanup of the previous run of the effect runs, then the
\* effect again; otherwise nothing happens.
Rerender(o) ==
    /\ mounted = "yes"
    /\ o # options
    /\ options' = o
    /\ IF Deps(o) # Deps(options)
       THEN /\ Len(cycles) < MaxCycles
            /\ cycles' = Append(Cleanup(cycles), StartFrame(o))
            /\ BeginLoad
       ELSE UNCHANGED <<cycles, isLoading, error>>
    /\ UNCHANGED <<mounted, repositories, activeTag, searchTerm, lastApplied>>
    /\ Render

\* <React.StrictMode>: right after mounting, the effect is cleaned up and
\* run a second time with the same dependencies.
StrictModeRemount ==
    /\ mounted = "yes"
    /\ Len(cycles) = 1
    /\ Len(cycles) < MaxCycles
    /\ cycles[1] = StartFrame(options)
    /\ cycles' = Append(Cleanup(cycles), StartFrame(options))
    /\ BeginLoad
    /\ UNCHANGED <<mounted, options, repositories, activeTag, searchTerm, lastApplied>>
    /\ Render

\* The consumer is torn down: the cleanup of the latest run of the effect.
\* The state of the hook and of App is discarded with the component: the
\* variables that held it take their initial values again, and no setter
\* call reaches them any more (every frame is cancelled).
Unmount ==
    /\ mounted = "yes"
    /\ mounted' = "gone"
    /\ cycles' = Cleanup(cycles)
    /\ repositories' = <<>>
    /\ isLoading' = TRUE
    /\ error' = None
    /\ activeTag' = None
    /\ searchTerm' = ""
    /\ tags' = <<>>
    /\ filteredRepositories' = <<>>
    /\ lastApplied' = None
    /\ UNCHANGED options

\* The bodies page `page` may hold.
BodiesFor(page) == ShortBodies \cup (IF page < MaxPages THEN {"full"} ELSE {})

\* await fetchPage(username, page) of cycle c resolves with body b, and
\* loadRepositories runs on to its next await or to its return.
PageOk(c, b) ==
    /\ c \in 1..Len(cycles)
    /\ cycles[c].pc = "fetching"
    /\ b \in BodiesFor(cycles[c].page)
    /\ LET f        == cycles[c]
           pageData == Body(b, f.page)
           pushed   == [f EXCEPT !.aggregated = f.aggregated \o pageData,
                                 !.responses = Append(f.responses, b)]
       IN  IF ~IsLastPage(pageData)
           THEN /\ cycles' = [cycles EXCEPT ![c] =
                                [pushed EXCEPT !.page = f.page + 1,
                                               !.requested = Append(f.requested, f.page + 1)]]
                /\ UNCHANGED <<repositories, isLoading, error, lastApplied>>
           ELSE /\ cycles' = [cycles EXCEPT ![c] = ReturnedFrame(pushed)]
                /\ lastApplied' = IF pushed.cancelled THEN lastApplied
                                  ELSE Snapshot(c, pushed, "success", None)
                /\ IF Discarded(pushed)
                   THEN UNCHANGED <<repositories, isLoading, error>>
                   ELSE /\ repositories' =
                              Normalised(pushed.aggregated, f.includeForks, f.includeArchived)
                        /\ FinallyBlock
                        /\ UNCHANGED error
    /\ UNCHANGED <<mounted, options, activeTag, searchTerm>>
    /\ Render

\* await fetchPage(username, page) of cycle c rejects: catch, then finally.
\* Every rejection is an Error, so the message is err.message.
PageFailed(c, fl) ==
    /\ c \in 1..Len(cycles)
    /\ cycles[c].pc = "fetching"
    /\ fl \in Failures
    /\ LET f == cycles[c]
       IN  /\ cycles' = [cycles EXCEPT ![c] = ReturnedFrame(f)]
           /\ lastApplied' = IF f.cancelled THEN lastApplied
                             ELSE Snapshot(c, f, "failure", Some(fl))
           /\ IF Discarded(f)
              THEN UNCHANGED <<repositories, isLoading, error>>
              ELSE /\ CatchBlock(FetchPageError(fl))
                   /\ FinallyBlock
    /\ UNCHANGED <<mounted, options, activeTag, searchTerm>>
    /\ Render

\* The search strings a visitor types.
SearchTerms == {"", "  ", "ml", "ML ", "Vision", "fork"}

\* onChange of the search input: setSearchTerm(event.target.value)
SetSearchTerm(term) ==
    /\ mounted = "yes"
    /\ term \in SearchTerms
    /\ term # searchTerm
    /\ searchTerm' = term
    /\ UNCHANGED <<mounted, options, repositories, isLoading, error, cycles,
                   activeTag, lastApplied>>
    /\ Render

\* The buttons TagFilter renders: "All" and one per entry of tags.
TagButtons == {"__ALL__"} \cup {tags[k].label : k \in 1..Len(tags)}

\* handleClick of TagFilter with onTagSelect = setActiveTag.
SetActiveTag(value) ==
    /\ mounted = "yes"
    /\ Len(tags) > 0
    /\ value \in TagButtons
    /\ activeTag' = IF value = "__ALL__" THEN None ELSE Some(value)
    /\ activeTag' # activeTag
    /\ UNCHANGED <<mounted, options, repositories, isLoading, error, cycles,
                   searchTerm, lastApplied>>
    /\ Render

\* useGitHubRepos under any consumer.
Next ==
    \/ Mount
    \/ \E o \in OptionSet : Rerender(o)
    \/ StrictModeRemount
    \/ Unmount
    \/ \E c \in 1..MaxCycles, b \in ShortBodies \cup {"full"} : PageOk(c, b)
    \/ \E c \in 1..MaxCycles, fl \in Failures : PageFailed(c, fl)

Spec == Init /\ [][Next]_vars

\* The pending page request of the latest run of the effect is answered.
\* The rejection stands first: whether it can happen is decided without
\* building a collection.
Respond ==
    \/ \E fl \in Failures : PageFailed(Len(cycles), fl)
    \/ \E b \in ShortBodies \cup {"full"} : PageOk(Len(cycles), b)

\* The same, every page request of the latest cycle being answered in the
\* end.  No cycle is served more than MaxPages - 1 full pages, so one of its
\* pages is short or fails.
LiveSpec == Init /\ [][Next]_vars /\ WF_vars(Respond)

\* App: the hook with the options App passes, and the visitor's filters.
AppInit == Init /\ options = AppOptions

AppNext ==
    \/ Mount
    \/ StrictModeRemount
    \/ Unmount
    \/ \E c \in 1..MaxCycles, b \in ShortBodies \cup {"full"} : PageOk(c, b)
    \/ \E c \in 1..MaxCycles, fl \in Failures : PageFailed(c, fl)
    \/ \E term \in SearchTerms : SetSearchTerm(term)
    \/ \E value \in TagButtons : SetActiveTag(value)

AppSpec == AppInit /\ [][AppNext]_vars

\* ------------------------------------------------------------- properties
\* The bodies of the responses rs (to pages 1, 2, ...), one after the other.
RECURSIVE ConcatBodies(_)
ConcatBodies(rs) ==
    IF rs = <<>> THEN <<>>
    ELSE ConcatBodies(SubSeq(rs, 1, Len(rs) - 1)) \o Body(rs[Len(rs)], Len(rs))

PageSizes(rs) == [i \in 1..Len(rs) |-> Len(Body(rs[i], i))]

\* The latest run of the effect has not been cleaned up and its call of
\* loadRepositories has not returned.
CurrentInFlight ==
    /\ cycles # <<>>
    /\ cycles[Len(cycles)].pc = "fetching"
    /\ ~cycles[Len(cycles)].cancelled

AppliedSuccess == IsSome(lastApplied) /\ lastApplied[1].outcome = "success"
AppliedFailure == IsSome(lastApplied) /\ lastApplied[1].outcome = "failure"

\* C1: a step of a fetch cycle that has been superseded or torn down (its
\* cancelled flag is set) -- a further page, its successful completion or its
\* failure -- leaves repositories, isLoading and error as they were.
C1_StaleCycleMutatesNothing ==
    [][ \A c \in 1..Len(cycles) :
          (cycles[c].cancelled /\ cycles[c].pc = "fetching" /\ cycles'[c] # cycles[c])
              => (repositories' = repositories /\ isLoading' = isLoading /\ error' = error)
      ]_vars

\* A superseded cycle has completed, and the store holds the non-empty
\* collection the newer cycle established.
C1_Witness ==
    /\ Len(cycles) = 2
    /\ cycles[1].pc = "dropped"
    /\ cycles[2].pc = "returned"
    /\ AppliedSuccess
    /\ lastApplied[1].cycle = 2
    /\ repositories # <<>>
    /\ ~isLoading

\* C2: when a page request of the current cycle fails, on whichever page,
\* repositories is what it was when that cycle started and error is a
\* non-empty string.
C2_FailureKeepsCollection ==
    [][ \A c \in 1..Len(cycles) :
          (/\ cycles[c].pc = "fetching"
           /\ ~cycles[c].cancelled
           /\ cycles'[c].pc = "returned"
           /\ lastApplied'[1].outcome = "failure")
              => (/\ repositories' = cycles[c].before
                  /\ IsSome(error')
                  /\ Len(error'[1]) > 0)
      ]_vars

\* The current cycle failed after two full pages, and the collection of an
\* earlier cycle is still there.
C2_Witness ==
    /\ AppliedFailure
    /\ Len(lastApplied[1].aggregated) = 2 * PER_PAGE
    /\ repositories # <<>>
    /\ IsSome(error)

\* C3: a cycle asks for pages 1, 2, 3, ... with one request outstanding at a
\* time, goes on exactly while the pages are full, stops with the first page
\* of fewer than PER_PAGE records, and aggregates the bodies in page order;
\* sizes [100,100,37] give 237 records in 3 requests, [0] gives none in 1.
C3_Pagination ==
    /\ \A c \in 1..Len(cycles) :
          cycles[c].pc = "fetching" =>
              LET f == cycles[c]
              IN  /\ f.requested = [i \in 1..f.page |-> i]
                  /\ Len(f.responses) = Len(f.requested) - 1
                  /\ \A i \in 1..Len(f.responses) : PageSizes(f.responses)[i] = 100
                  /\ f.aggregated = ConcatBodies(f.responses)
    /\ AppliedSuccess =>
          LET a == lastApplied[1]
              n == Len(a.responses)
              sizes == PageSizes(a.responses)
          IN  /\ n >= 1
              /\ a.requested = [i \in 1..n |-> i]
              /\ \A i \in 1..(n - 1) : sizes[i] = 100
              /\ sizes[n] < 100
              /\ a.aggregated = ConcatBodies(a.responses)
              /\ (sizes = <<100, 100, 37>> =>
                      Len(a.aggregated) = 237 /\ Len(a.requested) = 3)
              /\ (sizes = <<0>> =>
                      Len(a.aggregated) = 0 /\ Len(a.requested) = 1)

\* A cycle was served pages of 100, 100 and 37 records.
C3_Witness ==
    /\ AppliedSuccess
    /\ PageSizes(lastApplied[1].responses) = <<100, 100, 37>>
    /\ Len(lastApplied[1].aggregated) = 237

\* The trimmed search string, as the claim uses it.
C4_Query == ToLowerCase(Trim(searchTerm))

C4_Visible(repo) ==
    /\ \/ activeTag = None
       \/ \E k \in 1..Len(repo.allTags) : repo.allTags[k] = activeTag[1]
    /\ \/ Len(Trim(searchTerm)) = 0
       \/ StrIncludes(ToLowerCase(repo.name), C4_Query)
       \/ StrIncludes(ToLowerCase(IF IsSome(repo.description)
                                  THEN repo.description[1] ELSE ""), C4_Query)
       \/ \E k \in 1..Len(repo.allTags) :
             StrIncludes(ToLowerCase(repo.allTags[k]), C4_Query)

\* C4: the visible subset is the records of repositories, in order, that pass
\* the tag clause and the search clause, the search clause matching the
\* trimmed search string case-insensitively against name, description, tags.
C4_VisibleSubset ==
    filteredRepositories = SelectSeq(repositories, C4_Visible)

\* The label sets of the records of repositories.
TagSetOf(repo) == {repo.allTags[k] : k \in 1..Len(repo.allTags)}

\* C5: tags has one entry per distinct tag of repositories, each with the
\* number of records carrying the tag, in label order.
C5_TagMeta ==
    LET labels == UNION {TagSetOf(repositories[j]) : j \in 1..Len(repositories)}
    IN  /\ {tags[k].label : k \in 1..Len(tags)} = labels
        /\ Len(tags) = Cardinality(labels)
        /\ \A k \in 1..Len(tags) :
              tags[k].count =
                  Cardinality({j \in 1..Len(repositories) :
                                  tags[k].label \in TagSetOf(repositories[j])})
        /\ \A k \in 1..(Len(tags) - 1) :
              LocaleCompare(tags[k].label, tags[k + 1].label) < 0

\* The collection was replaced by a second cycle, and its tags are counted:
\* cv once, ml twice.
C5_Witness ==
    /\ AppliedSuccess
    /\ lastApplied[1].cycle = 2
    /\ tags = <<[label |-> "cv", count |-> 1], [label |-> "ml", count |-> 2]>>

C7_SortedByUpdated ==
    \A j \in 1..(Len(repositories) - 1) :
        DateGetTime(repositories[j].updated_at)
            >= DateGetTime(repositories[j + 1].updated_at)

\* A short page of newer records came after a full page and was moved in
\* front of it.
C7_Witness ==
    /\ AppliedSuccess
    /\ lastApplied[1].responses = <<"full", "mixed">>
    /\ repositories[1].id = 2
    /\ lastApplied[1].aggregated[1].id # 2

UpperLetters == {Char(UpperCase, k) : k \in 1..Len(UpperCase)}

\* C8: the allTags of every record of repositories holds the lower-cased
\* topics of the record (none when topics is absent), each once.
C8_AllTagsDistinctLower ==
    \A j \in 1..Len(repositories) :
        LET r == repositories[j]
            t == r.allTags
            topics == IF IsSome(r.topics) THEN r.topics[1] ELSE <<>>
        IN  /\ \A a \in 1..Len(t) : \A k \in 1..Len(t[a]) : Char(t[a], k) \notin UpperLetters
            /\ \A a, b \in 1..Len(t) : a # b => t[a] # t[b]
            /\ {t[a] : a \in 1..Len(t)} = {ToLowerCase(topics[a]) : a \in 1..Len(topics)}

\* The collection holds a record with topics ["CV", "cv", "ML"] and one
\* with no topics field.
C8_Witness ==
    /\ \E j \in 1..Len(repositories) :
          /\ repositories[j].topics = Some(<<"CV", "cv", "ML">>)
          /\ repositories[j].allTags = <<"cv", "ml">>
    /\ \E j \in 1..Len(repositories) :
          /\ repositories[j].topics = None
          /\ repositories[j].allTags = <<>>

\* C9: the error stored for a non-success HTTP response contains the status,
\* the x-ratelimit-remaining value when that header is present and the
\* x-ratelimit-reset value when that header is present.
C9_ErrorNamesStatusAndHeaders ==
    (AppliedFailure /\ lastApplied[1].failure[1].kind = "http" /\ IsSome(error)) =>
        LET fl == lastApplied[1].failure[1]
        IN  /\ StrIncludes(error[1], ToString(fl.status))
            /\ IsSome(fl.remaining) => StrIncludes(error[1], fl.remaining[1])
            /\ IsSome(fl.reset) => StrIncludes(error[1], fl.reset[1])

\* C10: while the current cycle is in flight, isLoading is true and error is
\* absent.
C10_LoadingWhileInFlight ==
    CurrentInFlight => (isLoading /\ error = None)

\* The second cycle is in flight on its second page, the first one having
\* completed after it was superseded.
C10_Witness ==
    /\ Len(cycles) = 2
    /\ CurrentInFlight
    /\ cycles[2].page = 2
    /\ cycles[1].pc = "dropped"

\* Cycle c is current and this step is the return of its loadRepositories.
CurrentResolves(c) ==
    /\ cycles[c].pc = "fetching"
    /\ ~cycles[c].cancelled
    /\ cycles'[c].pc = "returned"

\* C11: the step in which the current cycle resolves makes isLoading false,
\* on success together with storing the new collection and error absent, on
\* failure together with storing the error string; so, while the consumer is
\* mounted and the page requests of the latest cycle are answered, isLoading
\* becomes false in the end, and it turns true again only when a dependency
\* of the effect changes or the consumer is torn down.
C11_LoadingCleared ==
    /\ [][ \A c \in 1..Len(cycles) :
             CurrentResolves(c) =>
                 LET a == lastApplied'[1]
                 IN  /\ isLoading' = FALSE
                     /\ a.outcome = "success" =>
                            /\ repositories' =
                                  Normalised(a.aggregated, a.includeForks, a.includeArchived)
                            /\ error' = None
                     /\ a.outcome = "failure" =>
                            error' = Some(FetchPageError(a.failure[1]))
         ]_vars
    /\ (mounted = "yes") ~> (mounted = "gone" \/ ~isLoading)
    /\ [][ (~isLoading /\ isLoading') =>
             (mounted' = "gone" \/ Deps(options') # Deps(options)) ]_vars

\* The second cycle, started by a change of configuration after the first
\* one had stored a collection, was rejected by the transport: isLoading is
\* false again and the error is stored.
C11_Witness ==
    /\ mounted = "yes"
    /\ Len(cycles) = 2
    /\ cycles[1].pc = "returned"
    /\ cycles[2].pc = "returned"
    /\ AppliedFailure
    /\ lastApplied[1].cycle = 2
    /\ lastApplied[1].failure[1].kind = "network"
    /\ repositories # <<>>
    /\ ~isLoading
    /\ error = Some("Failed to fetch")

\* The entries of tags whose label is the active tag.
C12_Selected == {k \in 1..Len(tags) : activeTag = Some(tags[k].label)}

=============================================================================
